---- MODULE Spec2Model ----
(***************************************************************************)
(* Model of the destination aggregation endpoint of src/server.js:        *)
(* GET /api/destinations, its result cache, and the two model helpers      *)
(* getAIRecommendations and getSightsFromAI.                               *)
(*                                                                         *)
(* One request is one run of the async handler.  Every action is the code  *)
(* that runs, without suspension, between two awaits of one request.       *)
(* The external services (exchange rate, text model, country metadata,    *)
(* geocoding, weather) answer nondeterministically; what they answered is  *)
(* kept per request in fetched and calls, the way a mocked collaborator    *)
(* records its calls.                                                      *)
(***************************************************************************)
EXTENDS Integers, Sequences, FiniteSets, TLC

(***************************************************************************)
(* Bounds of the model.                                                    *)
(***************************************************************************)
NumReq == 2        \* requests in Spec (they may overlap)
MaxCands == 2      \* longest candidate list in Spec
MaxBatch == 3      \* longest candidate list in SpecBatch
MaxRecord == 1     \* longest candidate list in SpecRecord
MaxEpoch == 1      \* the clock runs to about MaxEpoch freshness windows

(***************************************************************************)
(* Program constants.                                                      *)
(***************************************************************************)
FreshnessMs == 3600000

(***************************************************************************)
(* JavaScript values.  Every value is a record tagged by j, so that values *)
(* of different JS types can be compared.                                  *)
(***************************************************************************)
Undef == [j |-> "undefined"]
JNull == [j |-> "null"]
JNum(n) == [j |-> "num", n |-> n]
JStr(s) == [j |-> "str", s |-> s]
JArr(items) == [j |-> "arr", items |-> items]
\* An object is its properties in insertion order: a sequence of <<key, value>>.
JObj(props) == [j |-> "obj", props |-> props]

\* o.k for a value o that is not null/undefined: a missing property and a
\* property of a primitive are undefined.
Get(o, k) ==
  IF o.j = "obj" /\ \E i \in 1..Len(o.props) : o.props[i][1] = k
  THEN o.props[CHOOSE i \in 1..Len(o.props) : o.props[i][1] = k][2]
  ELSE Undef

\* Reading a property of null or undefined throws a TypeError.
Nullish(o) == o.j \in {"undefined", "null"}

\* !v
Falsy(v) ==
  \/ v.j \in {"undefined", "null", "false"}
  \/ v.j = "num" /\ v.n = 0
  \/ v.j = "str" /\ v.s = ""

\* v[0]
First(v) ==
  IF v.j = "arr" /\ Len(v.items) > 0 THEN v.items[1]
  ELSE IF v.j = "str" /\ Len(v.s) > 0 THEN JStr(SubSeq(v.s, 1, 1))
  ELSE Undef

\* v.length
Length(v) ==
  IF v.j = "arr" THEN JNum(Len(v.items))
  ELSE IF v.j = "str" THEN JNum(Len(v.s))
  ELSE Get(v, "length")

\* Object.values(o)[0]
FirstValue(o) == IF o.j = "obj" /\ Len(o.props) > 0 THEN o.props[1][2] ELSE First(o)

\* for (const x of v): arrays and strings are iterable, nothing else the
\* JSON parser returns is.
Iterable(v) == v.j \in {"arr", "str"}
Elements(v) ==
  IF v.j = "arr" THEN v.items
  ELSE [i \in 1..Len(v.s) |-> JStr(SubSeq(v.s, i, i))]

(***************************************************************************)
(* String helpers: String.prototype.trim and parseInt(s, 10).              *)
(***************************************************************************)
IsSpace(c) == c = " "
DigitVal ==
  ("0" :> 0) @@ ("1" :> 1) @@ ("2" :> 2) @@ ("3" :> 3) @@ ("4" :> 4) @@
  ("5" :> 5) @@ ("6" :> 6) @@ ("7" :> 7) @@ ("8" :> 8) @@ ("9" :> 9)
IsDigit(c) == c \in DOMAIN DigitVal
CharAt(s, i) == SubSeq(s, i, i)

RECURSIVE TrimLeft(_)
TrimLeft(s) ==
  IF Len(s) > 0 /\ IsSpace(CharAt(s, 1)) THEN TrimLeft(SubSeq(s, 2, Len(s))) ELSE s
RECURSIVE TrimRight(_)
TrimRight(s) ==
  IF Len(s) > 0 /\ IsSpace(CharAt(s, Len(s))) THEN TrimRight(SubSeq(s, 1, Len(s) - 1)) ELSE s
Trim(s) == TrimRight(TrimLeft(s))

NaN == [nan |-> TRUE, n |-> 0]
Number(n) == [nan |-> FALSE, n |-> n]
isNaN(b) == b.nan

\* The digits of s from position i on, read left to right; acc is the value
\* read so far and any is whether a digit was read.
RECURSIVE ReadDigits(_, _, _, _)
ReadDigits(s, i, acc, any) ==
  IF i <= Len(s) /\ IsDigit(CharAt(s, i))
  THEN ReadDigits(s, i + 1, 10 * acc + DigitVal[CharAt(s, i)], TRUE)
  ELSE [any |-> any, n |-> acc]

\* parseInt(s, 10): leading white space, an optional sign, then the longest
\* run of digits; NaN when there is no digit.
parseInt(s) ==
  LET t == TrimLeft(s)
      signed == Len(t) > 0 /\ CharAt(t, 1) \in {"-", "+"}
      neg == Len(t) > 0 /\ CharAt(t, 1) = "-"
      d == ReadDigits(t, IF signed THEN 2 ELSE 1, 0, FALSE)
  IN  IF d.any THEN Number(IF neg THEN 0 - d.n ELSE d.n) ELSE NaN

(***************************************************************************)
(* What the external collaborators hand back.                              *)
(*   axios.get: the promise rejects (network error, timeout, non-2xx) or   *)
(*   resolves to a response whose data is the parsed JSON body.            *)
(*   model.generateContent: the promise rejects, or response.text() is not *)
(*   a string, or it is a text.  A text is a sequence of pieces: a         *)
(*   markdown fence, prose, or the source text of one JSON value.          *)
(***************************************************************************)
AxRejected == [ax |-> "rejected"]
AxOk(data) == [ax |-> "ok", data |-> data]
GenRejected == [gen |-> "rejected"]
GenNonText == [gen |-> "nontext"]
GenText(text) == [gen |-> "text", text |-> text]
FenceJson == [t |-> "fence", lang |-> "json"]
Fence == [t |-> "fence", lang |-> ""]
Prose == [t |-> "prose"]
Json(v) == [t |-> "json", v |-> v]
NotCalled == [nc |-> TRUE]
Pending == [j |-> "pending"]

\* text.replace(/```json/g, '').replace(/```/g, '').trim()
IsFenceJson(t) == t.t = "fence" /\ t.lang = "json"
IsFence(t) == t.t = "fence"
cleanedText(text) ==
  SelectSeq(SelectSeq(text, LAMBDA t : ~IsFenceJson(t)), LAMBDA t : ~IsFence(t))

\* JSON.parse(c) returns a value exactly when c is the text of one JSON value
\* and throws a SyntaxError otherwise.
JSONParses(c) == Len(c) = 1 /\ c[1].t = "json"
JSONParse(c) == c[1].v

\* The try block shared by both model helpers: TRUE when it reaches its
\* return statement.
ReplyParses(reply) == reply.gen = "text" /\ JSONParses(cleanedText(reply.text))

\* The value getAIRecommendations resolves to, given the model's reply.
getAIRecommendations(reply) ==
  IF ReplyParses(reply) THEN JSONParse(cleanedText(reply.text)) ELSE JArr(<<>>)

\* Variant: the three-item fallback of the earlier revision.
FallbackSights_v5 ==
  JArr(<<JStr("Famous landmarks"), JStr("Local markets"), JStr("Beautiful parks")>>)

FallbackSights == JArr(<<JStr("Famous landmarks"), JStr("Local markets")>>)

\* The value getSightsFromAI resolves to, given the model's reply.
getSightsFromAI(reply) ==
  IF ReplyParses(reply) THEN JSONParse(cleanedText(reply.text)) ELSE FallbackSights

(***************************************************************************)
(* The handler, pure parts.                                                *)
(***************************************************************************)
\* Variants: the messages of the earlier revision of the handler.
BadBudgetBody_v5 == JObj(<< <<"error", JStr("A valid budget parameter is required.")>> >>)
FailedBody_v5 ==
  JObj(<< <<"error",
            JStr("Failed to fetch external API data. Check server logs and API keys.")>> >>)

BadBudgetBody == JObj(<< <<"error", JStr("A valid budget is required.")>> >>)
FailedBody == JObj(<< <<"error", JStr("Failed to fetch API data.")>> >>)

\* req.query.currency || 'USD'
CurrencyOf(param) == IF param = "" THEN "USD" ELSE param

\* Variant: the currency left out of the key.
cacheKey_budgetOnly(budget, currency) == "destinations-v7-" \o ToString(budget.n)

\* `destinations-v7-${budget}-${currency}`
cacheKey(budget, currency) ==
  "destinations-v7-" \o ToString(budget.n) \o "-" \o currency

\* Variants of the freshness test: the window taken in seconds, and an entry
\* still served at the very end of the window.
CacheHit_seconds(c, key, t) == key \in DOMAIN c /\ t - c[key].timestamp < 3600
CacheHit_inclusive(c, key, t) == key \in DOMAIN c /\ t - c[key].timestamp <= FreshnessMs

\* cache.has(key) && (Date.now() - cache.get(key).timestamp < 3600000)
CacheHit(c, key, t) == key \in DOMAIN c /\ t - c[key].timestamp < FreshnessMs

\* Variant: the length test left out.
NoSuggestions_falsy(v) == Falsy(v)

\* !suggestedLocations || suggestedLocations.length === 0
NoSuggestions(v) == Falsy(v) \/ Length(v) = JNum(0)

isCity(location) == Get(location, "type") = JStr("city")
countryName(location) ==
  IF isCity(location) THEN Get(location, "country") ELSE Get(location, "name")
locationName(location) == Get(location, "name")

\* The code of one loop iteration up to the country request:
\*   "abort": location is null, so location.type throws, and the catch block
\*            throws again on location.name: the for loop is left;
\*   "drop":  countryName.trim() throws (countryName is no string), the
\*            catch block logs, the loop goes on;
\*   "call":  the country request is sent.
Prefix(location) ==
  IF Nullish(location) THEN "abort"
  ELSE IF countryName(location).j # "str" THEN "drop"
  ELSE "call"

\* Variant: the loop is left after its first element.
LoopFrom_once(elems, i) ==
  IF i > Len(elems) \/ i > 1 THEN [kind |-> "exhausted", idx |-> i]
  ELSE IF Prefix(elems[i]) = "abort" THEN [kind |-> "abort", idx |-> i]
  ELSE IF Prefix(elems[i]) = "drop" THEN [kind |-> "exhausted", idx |-> i + 1]
  ELSE [kind |-> "await", idx |-> i]

\* The for loop from element i on, up to its next await.
RECURSIVE LoopFrom(_, _)
LoopFrom(elems, i) ==
  IF i > Len(elems) THEN [kind |-> "exhausted", idx |-> i]
  ELSE IF Prefix(elems[i]) = "abort" THEN [kind |-> "abort", idx |-> i]
  ELSE IF Prefix(elems[i]) = "drop" THEN LoopFrom(elems, i + 1)
  ELSE [kind |-> "await", idx |-> i]

\* Lines 58-79 for a country (non-city) candidate, given the country reply.
\* kind "drop" covers both `continue` and a thrown TypeError.
AfterCountry(location, resp) ==
  LET data == resp.data
      country == First(data)
      capital == Get(country, "capital")
      capitalInfo == Get(country, "capitalInfo")
  IN  IF resp.ax = "rejected" \/ Nullish(data) \/ Falsy(country)
      THEN [kind |-> "drop"]
      ELSE IF isCity(location)
      THEN [kind |-> "geocode", country |-> country]
      ELSE IF Falsy(capital) \/ Nullish(capitalInfo) \/ Falsy(Get(capitalInfo, "latlng"))
      THEN [kind |-> "drop"]
      ELSE [kind |-> "assemble", country |-> country,
            latlng |-> Get(capitalInfo, "latlng"),
            displayName |-> First(capital), subtext |-> First(capital)]

\* Variant: the `else { continue; }` of line 71 left out.
AfterGeocode_unchecked(location, country, resp) ==
  IF resp.ax = "rejected" \/ Nullish(Get(country, "name")) THEN [kind |-> "drop"]
  ELSE [kind |-> "assemble", country |-> country,
        latlng |-> JArr(<<Get(First(resp.data), "lat"), Get(First(resp.data), "lon")>>),
        displayName |-> locationName(location),
        subtext |-> Get(Get(country, "name"), "common")]

\* Lines 68-73, given the geocoding reply.
AfterGeocode(location, country, resp) ==
  LET data == resp.data
      hit == First(data)
  IN  IF resp.ax = "rejected" \/ Falsy(data)
      THEN [kind |-> "drop"]
      ELSE IF ~(Length(data).j = "num" /\ Length(data).n > 0)
      THEN [kind |-> "drop"]
      ELSE IF Nullish(hit) \/ Nullish(Get(country, "name"))
      THEN [kind |-> "drop"]
      ELSE [kind |-> "assemble", country |-> country,
            latlng |-> JArr(<<Get(hit, "lat"), Get(hit, "lon")>>),
            displayName |-> locationName(location),
            subtext |-> Get(Get(country, "name"), "common")]

\* Variant: Object.values(...)[0] left out, the currency set itself is used.
currencyData_set(country) ==
  IF Falsy(Get(country, "currencies")) THEN JNull ELSE Get(country, "currencies")

\* country.currencies ? Object.values(country.currencies)[0] : null
currencyData(country) ==
  IF Falsy(Get(country, "currencies")) THEN JNull
  ELSE FirstValue(Get(country, "currencies"))

\* Variant: the weather fields read with optional chaining, so that a reply
\* without them no longer throws.
RecordThrows_lenient(country, weatherResponse) == Nullish(Get(country, "flags"))

\* Lines 89-93 throw when a property of undefined is read.
RecordThrows(country, weatherResponse) ==
  LET wdata == weatherResponse.data
  IN  \/ Nullish(Get(country, "flags"))
      \/ Nullish(wdata)
      \/ Nullish(Get(wdata, "main"))
      \/ Nullish(Get(wdata, "weather"))
      \/ Nullish(First(Get(wdata, "weather")))

\* The object pushed at lines 89-93.
Record(location, country, latlng, subtext, weatherResponse, attractions) ==
  JObj(<< <<"name", locationName(location)>>,
          <<"capital", subtext>>,
          <<"flag", Get(Get(country, "flags"), "svg")>>,
          <<"currency", IF Falsy(currencyData(country)) THEN JStr("N/A")
                        ELSE Get(currencyData(country), "name")>>,
          <<"latlng", latlng>>,
          <<"weather", JObj(<< <<"temp", Get(Get(weatherResponse.data, "main"), "temp")>>,
                               <<"description",
                                 Get(First(Get(weatherResponse.data, "weather")), "description")>> >>)>>,
          <<"attractions", attractions>> >>)

\* Variant: unshift instead of push.
Push_front(destinations, record) == <<record>> \o destinations

\* destinations.push(record)
Push(destinations, record) == Append(destinations, record)

(***************************************************************************)
(* The replies the model draws from.  A reply is named by its shape; the   *)
(* operators below build the reply of that shape to a given query.         *)
(***************************************************************************)
CountryRecord(cca2, common, capital, lat, lon, code, currency) ==
  JObj(<< <<"cca2", JStr(cca2)>>,
          <<"name", JObj(<< <<"common", JStr(common)>> >>)>>,
          <<"capital", JArr(<<JStr(capital)>>)>>,
          <<"capitalInfo", JObj(<< <<"latlng", JArr(<<JNum(lat), JNum(lon)>>)>> >>)>>,
          <<"flags", JObj(<< <<"svg", JStr(cca2 \o ".svg")>> >>)>>,
          <<"currencies", JObj(<< <<code, JObj(<< <<"name", JStr(currency)>> >>)>> >>)>> >>)

Atlas ==
  ("United States" :> CountryRecord("US", "United States", "Washington", 38, -77,
                                    "USD", "United States dollar")) @@
  ("Japan" :> CountryRecord("JP", "Japan", "Tokyo", 35, 139, "JPY", "Japanese yen"))

\* o without its property k, and o with its property k set to v.
Without(o, k) == JObj(SelectSeq(o.props, LAMBDA kv : kv[1] # k))
With(o, k, v) ==
  JObj([i \in 1..Len(o.props) |-> IF o.props[i][1] = k THEN <<k, v>> ELSE o.props[i]])

CountryShapes ==
  {"rejected", "none", "full", "noCapital", "emptyCapital", "noCapitalInfo",
   "noLatlng", "noCurrencies", "emptyCurrencies", "noFlags"}

CountryReply(shape, name) ==
  LET c == Atlas[name]
  IN  IF shape = "rejected" THEN AxRejected
      ELSE IF shape = "none" \/ name \notin DOMAIN Atlas THEN AxOk(JArr(<<>>))
      ELSE IF shape = "noCapital" THEN AxOk(JArr(<<Without(c, "capital")>>))
      ELSE IF shape = "emptyCapital" THEN AxOk(JArr(<<With(c, "capital", JArr(<<>>))>>))
      ELSE IF shape = "noCapitalInfo" THEN AxOk(JArr(<<Without(c, "capitalInfo")>>))
      ELSE IF shape = "noLatlng" THEN AxOk(JArr(<<With(c, "capitalInfo", JObj(<<>>))>>))
      ELSE IF shape = "noCurrencies" THEN AxOk(JArr(<<Without(c, "currencies")>>))
      ELSE IF shape = "emptyCurrencies" THEN AxOk(JArr(<<With(c, "currencies", JObj(<<>>))>>))
      ELSE IF shape = "noFlags" THEN AxOk(JArr(<<Without(c, "flags")>>))
      ELSE AxOk(JArr(<<c>>))

GeocodeShapes == {"rejected", "none", "hit"}
GeocodeReply(shape) ==
  IF shape = "rejected" THEN AxRejected
  ELSE IF shape = "none" THEN AxOk(JArr(<<>>))
  ELSE AxOk(JArr(<<JObj(<< <<"lat", JNum(30)>>, <<"lon", JNum(-97)>> >>)>>))

WeatherShapes == {"rejected", "malformed", "sunny", "rain"}
WeatherData(temp, description) ==
  JObj(<< <<"main", JObj(<< <<"temp", JNum(temp)>> >>)>>,
          <<"weather", JArr(<<JObj(<< <<"description", JStr(description)>> >>)>>)>> >>)
WeatherReply(shape) ==
  IF shape = "rejected" THEN AxRejected
  ELSE IF shape = "malformed" THEN AxOk(JObj(<< <<"cod", JNum(200)>> >>))
  ELSE IF shape = "sunny" THEN AxOk(WeatherData(25, "clear sky"))
  ELSE AxOk(WeatherData(9, "light rain"))

SightsShapes ==
  {"rejected", "nontext", "prose", "list", "fenced", "object", "empty", "four"}
Sights(n) == JArr([i \in 1..n |-> JStr("Sight")])
SightsReply(shape) ==
  IF shape = "rejected" THEN GenRejected
  ELSE IF shape = "nontext" THEN GenNonText
  ELSE IF shape = "prose" THEN GenText(<<Prose, Json(Sights(3))>>)
  ELSE IF shape = "fenced" THEN GenText(<<FenceJson, Json(Sights(3)), Fence>>)
  ELSE IF shape = "object" THEN GenText(<<Json(JObj(<< <<"sights", Sights(3)>> >>))>>)
  ELSE IF shape = "empty" THEN GenText(<<Json(Sights(0))>>)
  ELSE IF shape = "four" THEN GenText(<<Json(Sights(4))>>)
  ELSE GenText(<<Json(Sights(3))>>)

ExchangeShapes == {"rejected", "malformed", "rate"}
\* A rate is given in hundredths: 108 is 1.08 USD for one unit.
ExchangeReply(shape) ==
  IF shape = "rejected" THEN AxRejected
  ELSE IF shape = "malformed" THEN AxOk(JObj(<< <<"message", JStr("not found")>> >>))
  ELSE AxOk(JObj(<< <<"rates", JObj(<< <<"USD", JNum(108)>> >>)>> >>))

\* The candidates the model may name.
City(name, country) ==
  JObj(<< <<"name", JStr(name)>>, <<"type", JStr("city")>>, <<"country", JStr(country)>> >>)
Country(name) == JObj(<< <<"name", JStr(name)>>, <<"type", JStr("country")>> >>)
Austin == City("Austin", "United States")
Japan == Country("Japan")
JapanPadded == Country(" Japan ")
Atlantis == Country("Atlantis")
CityNoCountry == JObj(<< <<"name", JStr("Austin")>>, <<"type", JStr("city")>> >>)
CountryNoName == JObj(<< <<"type", JStr("country")>> >>)
\* Well-formed candidates, and every shape of element a JSON array can hold.
RecordCandidates == {Austin, JapanPadded, Atlantis, JNum(7)}
BatchCandidates == {Austin, Japan, CityNoCountry, CountryNoName, JNull}

\* All sequences over S of length at most n.
RECURSIVE SeqsUpTo(_, _)
SeqsUpTo(S, n) ==
  IF n = 0 THEN {<<>>}
  ELSE LET shorter == SeqsUpTo(S, n - 1)
       IN  shorter \cup {Append(q, x) : q \in {t \in shorter : Len(t) = n - 1}, x \in S}

\* The replies to the recommendation prompt: the call fails, the text is
\* no JSON, or it is the JSON text of a value (bare or inside a fence).
RecommendationReplies(bare, fenced) ==
  {GenRejected, GenNonText, GenText(<<Prose>>)}
    \cup {GenText(<<Json(v)>>) : v \in bare}
    \cup {GenText(<<FenceJson, Json(v), Fence>>) : v \in fenced}

NonLists == {JNull, JNum(5), JStr("ab"), JObj(<< <<"destinations", JArr(<<>>)>> >>)}

(***************************************************************************)
(* State.                                                                  *)
(*   req[r]  the frame of request r: where its handler is suspended (pc),  *)
(*           its query string (query),                                     *)
(*           the handler's local variables and, while it runs, those of    *)
(*           getAIRecommendations (prompt, exchangeResponse), the response *)
(*           it sent (status,                                              *)
(*           body), the Date.now() of its cache check (checkedAt), and     *)
(*           what its collaborators saw: recommendation is the model's     *)
(*           reply to the recommendation prompt, calls counts the          *)
(*           requests sent per service, fetched[i] holds the replies       *)
(*           received for candidate i and the place names sent for it to   *)
(*           the weather service (weatherQuery) and to getSightsFromAI     *)
(*           (sightsName), orphans counts attraction calls                 *)
(*           still running after their Promise.all was rejected.           *)
(*   cache   the module-level Map, a function from the keys present.       *)
(*   now     Date.now()                                                    *)
(***************************************************************************)
VARIABLES req, cache, now
vars == <<req, cache, now>>

Reqs == 1..NumReq

\* The instants the clock can show: every multiple of the window and the
\* millisecond before it.
Instants ==
  {t \in {k * FreshnessMs + d : k \in 0..MaxEpoch, d \in {-1, 0}} : t >= 0}

ZeroCalls == [exchange |-> 0, model |-> 0, country |-> 0, geocode |-> 0, weather |-> 0]
NoFetch == [country |-> NotCalled, geocode |-> NotCalled, weather |-> NotCalled,
            sights |-> NotCalled, weatherQuery |-> NotCalled, sightsName |-> NotCalled]

IdleFrame ==
  [pc |-> "idle", query |-> [budget |-> "", currency |-> ""],
   budget |-> NaN, currency |-> "", checkedAt |-> 0, prompt |-> Undef,
   exchangeResponse |-> Undef,
   recommendation |-> NotCalled,
   suggestedLocations |-> Undef, idx |-> 0, destinations |-> <<>>,
   country |-> Undef, latlng |-> Undef, displayName |-> Undef, subtext |-> Undef,
   weatherResponse |-> Undef, attractions |-> Undef,
   status |-> 0, body |-> Undef,
   calls |-> ZeroCalls, fetched |-> <<>>, orphans |-> 0]

Init ==
  /\ req = [r \in Reqs |-> IdleFrame]
  /\ cache = <<>>
  /\ now = 0

\* The loop's locals go out of scope.
Unscoped(f) ==
  [f EXCEPT !.country = Undef, !.latlng = Undef, !.displayName = Undef,
            !.subtext = Undef, !.weatherResponse = Undef, !.attractions = Undef]

\* Variant: the outer catch only logs and sends nothing.
Respond_silent(f, status, body) ==
  IF status = 500
  THEN [Unscoped(f) EXCEPT !.pc = "failed", !.idx = 0, !.prompt = Undef,
                           !.destinations = <<>>]
  ELSE [Unscoped(f) EXCEPT !.pc = "done", !.status = status, !.body = body,
                           !.idx = 0, !.prompt = Undef, !.destinations = <<>>]

\* res.status(status).json(body): the handler is over.
Respond(f, status, body) ==
  [Unscoped(f) EXCEPT !.pc = "done", !.status = status, !.body = body,
                      !.idx = 0, !.prompt = Undef, !.destinations = <<>>]

\* Variant: a single-flight cache.  The request that stores a result also
\* answers, with that result, every other request of the same key that is
\* still computing.
Settle_shared(r, f, stored) ==
  /\ req' = [p \in Reqs |->
               IF p = r THEN f
               ELSE IF /\ stored
                       /\ req[p].pc \notin {"idle", "done"}
                       /\ cacheKey(req[p].budget, req[p].currency)
                            = cacheKey(f.budget, f.currency)
               THEN Respond(req[p], 200, f.body)
               ELSE req[p]]
  /\ cache' = IF stored
              THEN (cacheKey(f.budget, f.currency) :>
                      [timestamp |-> now, data |-> f.body]) @@ cache
              ELSE cache
  /\ UNCHANGED now

\* Variant: the outer catch stores its error body under the key as well.
Settle_eager(r, f, stored) ==
  /\ req' = [req EXCEPT ![r] = f]
  /\ cache' = IF stored \/ f.status = 500
              THEN (cacheKey(f.budget, f.currency) :>
                      [timestamp |-> now, data |-> f.body]) @@ cache
              ELSE cache
  /\ UNCHANGED now

\* The new frame of r, and the cache: line 98 runs exactly when the loop ran
\* to its end.
Settle(r, f, stored) ==
  /\ req' = [req EXCEPT ![r] = f]
  /\ cache' = IF stored
              THEN (cacheKey(f.budget, f.currency) :>
                      [timestamp |-> now, data |-> f.body]) @@ cache
              ELSE cache
  /\ UNCHANGED now

\* The for loop resumes at element i (lines 51-57), and after the loop
\* lines 98-99, or the outer catch of lines 100-103.
EnterLoop(r, f, i) ==
  LET elems == Elements(f.suggestedLocations)
      l == LoopFrom(elems, i)
  IN  IF l.kind = "await"
      THEN Settle(r, [Unscoped(f) EXCEPT !.pc = "country", !.idx = l.idx,
                                         !.calls.country = @ + 1], FALSE)
      ELSE IF l.kind = "abort"
      THEN Settle(r, Respond(f, 500, FailedBody), FALSE)
      ELSE Settle(r, Respond(f, 200, JArr(f.destinations)), TRUE)

\* Lines 81-86: both requests are sent, then the handler awaits them.
Assemble(r, f, a) ==
  Settle(r, [f EXCEPT !.pc = "assemble", !.country = a.country, !.latlng = a.latlng,
                      !.displayName = a.displayName, !.subtext = a.subtext,
                      !.weatherResponse = Pending, !.attractions = Pending,
                      !.fetched[f.idx].weatherQuery = a.displayName,
                      !.fetched[f.idx].sightsName =
                         locationName(Elements(f.suggestedLocations)[f.idx]),
                      !.calls.weather = @ + 1, !.calls.model = @ + 1], FALSE)

\* Lines 87-97 once Promise.all has resolved.
Complete(r, f) ==
  LET location == Elements(f.suggestedLocations)[f.idx]
  IN  IF RecordThrows(f.country, f.weatherResponse)
      THEN EnterLoop(r, f, f.idx + 1)
      ELSE EnterLoop(r, [f EXCEPT !.destinations =
                           Push(@, Record(location, f.country, f.latlng, f.subtext,
                                          f.weatherResponse, f.attractions))],
                     f.idx + 1)

\* Variant: a failed conversion counts as a rate of zero.
ApproxUSD_zero(budget, resp) ==
  LET rates == Get(resp.data, "rates")
  IN  IF resp.ax = "rejected" \/ Nullish(resp.data) \/ Nullish(rates) THEN JNum(0)
      ELSE IF Get(rates, "USD").j # "num" THEN [j |-> "NaN"]
      ELSE JNum((budget.n * Get(rates, "USD").n + 50) \div 100)

\* Math.round(budget * rate) for a rate in hundredths, or no figure when
\* lines 113-115 throw.
ApproxUSD(budget, resp) ==
  LET rates == Get(resp.data, "rates")
  IN  IF resp.ax = "rejected" \/ Nullish(resp.data) \/ Nullish(rates) THEN Undef
      ELSE IF Get(rates, "USD").j # "num" THEN [j |-> "NaN"]
      ELSE JNum((budget.n * Get(rates, "USD").n + 50) \div 100)

budgetContext(budget, currency, approx) ==
  [budget |-> budget.n, currency |-> currency, approx |-> approx]

\* The name in the URL of line 57: countryName.trim()
CountryQuery(f) == Trim(countryName(Elements(f.suggestedLocations)[f.idx]).s)

(***************************************************************************)
(* Actions: each is the code one request runs between two awaits.          *)
(***************************************************************************)
\* Lines 30-45 and 108-113 for the query q.
Arrived(r, q) ==
  LET budget == parseInt(q.budget)
      currency == CurrencyOf(q.currency)
      f == [req[r] EXCEPT !.query = q, !.budget = budget, !.currency = currency,
                          !.checkedAt = IF isNaN(budget) THEN 0 ELSE now]
  IN  IF isNaN(budget)
      THEN Settle(r, Respond(f, 400, BadBudgetBody), FALSE)
      ELSE IF CacheHit(cache, cacheKey(budget, currency), now)
      THEN Settle(r, Respond(f, 200, cache[cacheKey(budget, currency)].data), FALSE)
      ELSE IF currency # "USD"
      THEN Settle(r, [f EXCEPT !.pc = "exchange", !.calls.exchange = @ + 1], FALSE)
      ELSE Settle(r, [f EXCEPT !.pc = "recommend", !.calls.model = @ + 1,
                               !.prompt = budgetContext(budget, currency, Undef)],
                  FALSE)

\* A request arrives; requests are numbered in their order of arrival.
Arrive(r, queries) ==
  /\ req[r].pc = "idle"
  /\ \A p \in Reqs : p < r => req[p].pc # "idle"
  /\ \E q \in queries : Arrived(r, q)

\* Lines 113-130: the exchange-rate request settles, the prompt is sent.
ExchangeReturns(r, shapes) ==
  /\ req[r].pc = "exchange"
  /\ \E sh \in shapes :
       Settle(r, [req[r] EXCEPT !.pc = "recommend", !.calls.model = @ + 1,
                                !.exchangeResponse = ExchangeReply(sh),
                                !.prompt = budgetContext(req[r].budget, req[r].currency,
                                             ApproxUSD(req[r].budget, ExchangeReply(sh)))],
              FALSE)

\* Lines 130-138 and 45-57 for the model's reply to the prompt.
Recommended(r, reply) ==
  LET suggestedLocations == getAIRecommendations(reply)
      f == [req[r] EXCEPT !.recommendation = reply,
                          !.suggestedLocations = suggestedLocations, !.prompt = Undef,
                          !.exchangeResponse = Undef]
  IN  IF NoSuggestions(suggestedLocations) \/ ~Iterable(suggestedLocations)
      THEN Settle(r, Respond(f, 500, FailedBody), FALSE)
      ELSE EnterLoop(r, [f EXCEPT !.fetched =
                           [i \in 1..Len(Elements(suggestedLocations)) |-> NoFetch]], 1)

\* The model replies to the recommendation prompt.
RecommendationsReturn(r, replies) ==
  /\ req[r].pc = "recommend"
  /\ \E reply \in replies : Recommended(r, reply)

\* Lines 58-86: the country request settles.
CountrySettled(r, resp) ==
  LET f == [req[r] EXCEPT !.fetched[req[r].idx].country = resp]
      a == AfterCountry(Elements(f.suggestedLocations)[f.idx], resp)
  IN  IF a.kind = "drop" THEN EnterLoop(r, f, f.idx + 1)
      ELSE IF a.kind = "geocode"
      THEN Settle(r, [f EXCEPT !.pc = "geocode", !.country = a.country,
                               !.calls.geocode = @ + 1], FALSE)
      ELSE Assemble(r, f, a)

CountryReturns(r, shapes) ==
  /\ req[r].pc = "country"
  /\ \E sh \in shapes : CountrySettled(r, CountryReply(sh, CountryQuery(req[r])))

\* Lines 68-86: the geocoding request settles.
GeocodeSettled(r, resp) ==
  LET f == [req[r] EXCEPT !.fetched[req[r].idx].geocode = resp]
      a == AfterGeocode(Elements(f.suggestedLocations)[f.idx], f.country, resp)
  IN  IF a.kind = "drop" THEN EnterLoop(r, f, f.idx + 1) ELSE Assemble(r, f, a)

GeocodeReturns(r, shapes) ==
  /\ req[r].pc = "geocode"
  /\ \E sh \in shapes : GeocodeSettled(r, GeocodeReply(sh))

\* Line 86: the weather request settles.  A rejection rejects Promise.all at
\* once, whether or not the attraction call has returned.
WeatherSettled(r, resp) ==
  LET f == [req[r] EXCEPT !.fetched[req[r].idx].weather = resp, !.weatherResponse = resp]
  IN  IF resp.ax = "rejected"
      THEN EnterLoop(r, [f EXCEPT !.orphans =
                           IF f.attractions = Pending THEN @ + 1 ELSE @],
                     f.idx + 1)
      ELSE IF f.attractions = Pending THEN Settle(r, f, FALSE)
      ELSE Complete(r, f)

WeatherReturns(r, shapes) ==
  /\ req[r].pc = "assemble"
  /\ req[r].weatherResponse = Pending
  /\ \E sh \in shapes : WeatherSettled(r, WeatherReply(sh))

\* Lines 141-153 and 86: the attraction call of the current candidate returns.
SightsSettled(r, reply) ==
  LET f == [req[r] EXCEPT !.fetched[req[r].idx].sights = reply,
                          !.attractions = getSightsFromAI(reply)]
  IN  IF f.weatherResponse = Pending THEN Settle(r, f, FALSE) ELSE Complete(r, f)

SightsReturn(r, shapes) ==
  /\ req[r].pc = "assemble"
  /\ req[r].attractions = Pending
  /\ \E sh \in shapes : SightsSettled(r, SightsReply(sh))

\* An attraction call whose Promise.all was already rejected returns: its
\* value is dropped.
OrphanSightsReturn(r) ==
  /\ req[r].orphans > 0
  /\ req' = [req EXCEPT ![r].orphans = @ - 1]
  /\ UNCHANGED <<cache, now>>

\* Time passes.
Tick(t) ==
  /\ t > now
  /\ now' = t
  /\ UNCHANGED <<req, cache>>

(***************************************************************************)
(* Specifications.  The same actions under three sets of inputs:           *)
(*   Spec        the server: NumReq requests that may overlap, the shared  *)
(*               cache and the clock;                                      *)
(*   SpecBatch   one request and every shape of candidate list;            *)
(*   SpecRecord  one request, short lists, every shape of reply.           *)
(***************************************************************************)
Step(R, in) ==
  \/ \E r \in R : Arrive(r, in.queries)
  \/ \E r \in R : ExchangeReturns(r, in.exchange)
  \/ \E r \in R : RecommendationsReturn(r, in.recs)
  \/ \E r \in R : CountryReturns(r, in.country)
  \/ \E r \in R : GeocodeReturns(r, in.geocode)
  \/ \E r \in R : WeatherReturns(r, in.weather)
  \/ \E r \in R : SightsReturn(r, in.sights)
  \/ \E r \in R : OrphanSightsReturn(r)

Lists(S, n) == {JArr(l) : l \in SeqsUpTo(S, n)}
Query(budget, currency) == [budget |-> budget, currency |-> currency]

ServerInputs ==
  [queries |-> {Query("7", ""), Query("7", "EUR"), Query("x9", ""), Query("", "EUR")},
   exchange |-> {"rate"},
   recs |-> RecommendationReplies(Lists({Austin}, MaxCands), {}),
   country |-> {"full"},
   geocode |-> {"hit"},
   weather |-> {"rejected", "sunny"},
   sights |-> {"list"}]

BatchInputs ==
  [queries |-> {[budget |-> b, currency |-> c] : b \in {"150", "abc"}, c \in {"", "EUR"}},
   exchange |-> {"rejected", "rate"},
   recs |-> RecommendationReplies(Lists(BatchCandidates, MaxBatch) \cup NonLists,
                                  {JArr(<<>>), JArr(<<Japan>>)}),
   country |-> {"rejected", "none", "full"},
   geocode |-> {"none", "hit"},
   weather |-> {"rejected", "sunny"},
   sights |-> {"rejected", "list"}]

RecordInputs ==
  [queries |-> {Query(" 12abc", "EUR"),
                Query("abc", ""), Query("", "EUR"), Query("-", "USD"), Query("x9", "")},
   exchange |-> ExchangeShapes,
   recs |-> RecommendationReplies(Lists(RecordCandidates, MaxRecord), {JArr(<<>>)}),
   country |-> CountryShapes,
   geocode |-> GeocodeShapes,
   weather |-> WeatherShapes,
   sights |-> SightsShapes]

Next == Step(Reqs, ServerInputs) \/ \E t \in Instants : Tick(t)
Spec == Init /\ [][Next]_vars

NextBatch == Step({1}, BatchInputs)
SpecBatch == Init /\ [][NextBatch]_vars

\* Requests that may overlap, with queries whose keys are close: the same
\* budget written in two ways with and without the default currency, a
\* currency that holds the separator of the key, and a second budget.
KeysInputs ==
  [queries |-> {Query("7", ""), Query("7-1", "USD"), Query("7", "1-USD"), Query("71", "")},
   exchange |-> {"rate"},
   recs |-> RecommendationReplies({JArr(<<Austin>>)}, {}),
   country |-> {"full"},
   geocode |-> {"hit"},
   weather |-> {"rejected", "sunny", "rain"},
   sights |-> {"list"}]

NextKeys == Step(Reqs, KeysInputs)
SpecKeys == Init /\ [][NextKeys]_vars

\* Requests that may overlap, every external call of which settles in the
\* end: axios resolves or rejects, generateContent resolves or rejects.
LiveInputs ==
  [queries |-> {Query("7", ""), Query("7", "EUR"), Query("x9", "")},
   exchange |-> {"rejected", "rate"},
   recs |-> RecommendationReplies({JArr(<<>>), JArr(<<Austin>>)}, {}),
   country |-> {"none", "full"},
   geocode |-> {"none", "hit"},
   weather |-> {"rejected", "sunny"},
   sights |-> {"rejected", "list"}]

NextLive == Step(Reqs, LiveInputs)
\* Every call that a handler awaits settles in the end.
Settling ==
  \A r \in Reqs :
    /\ WF_vars(ExchangeReturns(r, LiveInputs.exchange))
    /\ WF_vars(RecommendationsReturn(r, LiveInputs.recs))
    /\ WF_vars(CountryReturns(r, LiveInputs.country))
    /\ WF_vars(GeocodeReturns(r, LiveInputs.geocode))
    /\ WF_vars(WeatherReturns(r, LiveInputs.weather))
    /\ WF_vars(SightsReturn(r, LiveInputs.sights))
SpecLive == Init /\ [][NextLive]_vars /\ Settling

NextRecord == Step({1}, RecordInputs)
SpecRecord == Init /\ [][NextRecord]_vars

(***************************************************************************)
(* Properties.                                                             *)
(***************************************************************************)
KeyOf(f) == cacheKey(f.budget, f.currency)

\* Request r runs lines 32-42 in this step, with a budget that parses.
Checks(r) == req[r].pc = "idle" /\ req'[r].pc # "idle" /\ ~isNaN(req'[r].budget)

\* The frame of a request that found nothing to serve: no response yet, and
\* its first request sent (the exchange rate, or for USD the prompt).
Recomputing(f) ==
  /\ f.status = 0
  /\ f.pc = IF f.currency = "USD" THEN "recommend" ELSE "exchange"
  /\ f.calls = IF f.currency = "USD" THEN [ZeroCalls EXCEPT !.model = 1]
               ELSE [ZeroCalls EXCEPT !.exchange = 1]

\* The response of r came from a run of the pipeline, not from the cache.
Fresh200(f) == f.pc = "done" /\ f.status = 200 /\ f.calls.model >= 1

\* C1: a request whose cache check finds an entry of its key younger than
\* 3600000 ms responds 200 with exactly the stored array, sends no request
\* to any external service, then or later, and leaves the cache as it was.
C1_FreshEntryIsServed ==
  [][\A r \in Reqs :
       /\ (Checks(r) /\ KeyOf(req'[r]) \in DOMAIN cache
                     /\ now - cache[KeyOf(req'[r])].timestamp < 3600000)
            => /\ req'[r].pc = "done"
               /\ req'[r].status = 200
               /\ req'[r].body = cache[KeyOf(req'[r])].data
               /\ req'[r].calls = ZeroCalls
               /\ cache' = cache
       /\ req[r].pc = "done"
            => /\ req'[r].calls = req[r].calls
               /\ req'[r].status = req[r].status
               /\ req'[r].body = req[r].body]_vars

\* A later request was served an earlier request's array, non-empty or
\* empty, in the last millisecond of the window.
C1_Witness ==
  \E r \in Reqs, p \in Reqs :
    /\ p < r
    /\ Fresh200(req[p]) /\ KeyOf(req[p]) = KeyOf(req[r])
    /\ req[r].pc = "done" /\ req[r].status = 200 /\ req[r].calls = ZeroCalls
    /\ req[r].body = req[p].body
    /\ KeyOf(req[r]) \in DOMAIN cache
    /\ req[r].checkedAt - cache[KeyOf(req[r])].timestamp = FreshnessMs - 1

\* C2: a request whose cache check finds an entry of its key that is
\* 3600000 ms old or older does what a request that finds no entry does: it
\* sends no response from the cache, starts the recomputation, and calls
\* the recommendation prompt once the exchange rate has settled.
C2_StaleEntryIsAMiss ==
  [][\A r \in Reqs :
       /\ (Checks(r) /\ KeyOf(req'[r]) \in DOMAIN cache
                     /\ now - cache[KeyOf(req'[r])].timestamp >= 3600000)
            => Recomputing(req'[r]) /\ cache' = cache
       /\ (Checks(r) /\ KeyOf(req'[r]) \notin DOMAIN cache)
            => Recomputing(req'[r]) /\ cache' = cache
       /\ (req[r].pc = "exchange" /\ req'[r] # req[r])
            => req'[r].pc = "recommend" /\ req'[r].calls.model = 1]_vars

\* A request that checked the cache a full window after the entry of its key
\* was stored is waiting for the model's recommendations.
C2_Witness ==
  \E r \in Reqs :
    /\ req[r].pc = "recommend" /\ req[r].calls.model = 1
    /\ KeyOf(req[r]) \in DOMAIN cache
    /\ req[r].checkedAt - cache[KeyOf(req[r])].timestamp >= FreshnessMs

(***************************************************************************)
(* What a run of the pipeline should have produced, read off the replies   *)
(* its collaborators gave.                                                 *)
(***************************************************************************)
Cands(f) == Elements(f.suggestedLocations)

\* Candidate i was resolved: where it ended after the country reply and, for
\* a city, the geocoding reply.
Resolution(f, i) ==
  LET location == Cands(f)[i]
      fe == f.fetched[i]
      a == AfterCountry(location, fe.country)
  IN  IF Prefix(location) # "call" \/ fe.country = NotCalled THEN [kind |-> "drop"]
      ELSE IF a.kind # "geocode" THEN a
      ELSE IF fe.geocode = NotCalled THEN [kind |-> "drop"]
      ELSE AfterGeocode(location, a.country, fe.geocode)

\* The weather request of candidate i was answered with a temperature and a
\* description.
WeatherOk(f, i) ==
  LET w == f.fetched[i].weather
  IN  /\ w # NotCalled
      /\ w.ax = "ok"
      /\ Get(Get(w.data, "main"), "temp").j = "num"
      /\ Get(First(Get(w.data, "weather")), "description").j = "str"

\* Every step of candidate i succeeded.
Succeeded(f, i) ==
  /\ Resolution(f, i).kind = "assemble"
  /\ WeatherOk(f, i)
  /\ f.fetched[i].sights # NotCalled
  /\ ~Nullish(Get(Resolution(f, i).country, "flags"))

ExpectedRecord(f, i) ==
  Record(Cands(f)[i], Resolution(f, i).country, Resolution(f, i).latlng,
         Resolution(f, i).subtext, f.fetched[i].weather,
         getSightsFromAI(f.fetched[i].sights))

\* The records of the candidates that succeeded among the first n, in the
\* order of the candidates.
RECURSIVE Expected(_, _)
Expected(f, n) ==
  IF n = 0 THEN <<>>
  ELSE IF Succeeded(f, n) THEN Append(Expected(f, n - 1), ExpectedRecord(f, n))
  ELSE Expected(f, n - 1)

\* The place of candidate i in the response, when it succeeded.
PlaceOf(f, i) == Cardinality({k \in 1..i : Succeeded(f, k)})

\* The model's reply made getAIRecommendations return a non-empty array.
GotList(f) == f.suggestedLocations.j = "arr" /\ Len(f.suggestedLocations.items) > 0

\* C3: the array of a fresh 200 response holds exactly the records of the
\* candidates whose every step succeeded, in the order of the candidates.
C3_SucceededInOrder ==
  \A r \in Reqs :
    Fresh200(req[r]) => req[r].body = JArr(Expected(req[r], Len(Cands(req[r]))))

\* Three candidates, the country lookup of the second returned no record:
\* the response holds the first and the third, in that order.
C3_Witness ==
  \E r \in Reqs :
    /\ Fresh200(req[r])
    /\ Len(Cands(req[r])) = 3
    /\ req[r].fetched[2].country = AxOk(JArr(<<>>))
    /\ Succeeded(req[r], 1) /\ Succeeded(req[r], 3)
    /\ Cands(req[r])[1] # Cands(req[r])[3]
    /\ Len(req[r].body.items) = 2
    /\ Get(req[r].body.items[1], "name") = Get(Cands(req[r])[1], "name")
    /\ Get(req[r].body.items[2], "name") = Get(Cands(req[r])[3], "name")

\* C4: whatever goes wrong with one candidate, the batch goes on: the
\* request ends with 200 and the country of every later well-formed
\* candidate has been looked up.
C4_BatchNeverAborted ==
  \A r \in Reqs :
    (req[r].pc = "done" /\ GotList(req[r]))
      => /\ req[r].status = 200
         /\ \A i \in 1..Len(Cands(req[r])) :
              Prefix(Cands(req[r])[i]) = "call" => req[r].fetched[i].country # NotCalled

\* C5: when getAIRecommendations returns an empty list the request ends
\* with 500 and the generic error body, no candidate request was sent, and
\* the cache holds no entry of that key.
C5_EmptyListIs500 ==
  \A r \in Reqs :
    req[r].suggestedLocations = JArr(<<>>)
      => /\ req[r].pc = "done"
         /\ req[r].status = 500
         /\ req[r].body = JObj(<< <<"error", JStr("Failed to fetch API data.")>> >>)
         /\ req[r].calls.model = 1
         /\ req[r].calls.country = 0
         /\ req[r].calls.geocode = 0
         /\ req[r].calls.weather = 0
         /\ KeyOf(req[r]) \notin DOMAIN cache

\* The model call failed, and the request ended with 500.
C5_Witness ==
  \E r \in Reqs :
    /\ req[r].recommendation = GenRejected
    /\ req[r].suggestedLocations = JArr(<<>>)
    /\ req[r].status = 500

\* The query strings with no integer to read: parseInt gives NaN.
Unparsable == {"abc", "", "-", "x9"}

\* C6: a request whose budget has no integer to read ends, in the step that
\* receives it, with 400 and the budget error body; it has read no cache
\* entry and sent no request to any service, the cache is as it was, and
\* nothing happens for that request afterwards.
C6_BadBudgetIs400 ==
  [][\A r \in Reqs :
       /\ (req[r].pc = "idle" /\ req'[r].pc # "idle" /\ req'[r].query.budget \in Unparsable)
            => /\ req'[r].pc = "done"
               /\ req'[r].status = 400
               /\ req'[r].body = JObj(<< <<"error", JStr("A valid budget is required.")>> >>)
               /\ req'[r].calls = ZeroCalls
               /\ req'[r].orphans = 0
               /\ cache' = cache
       /\ req[r].status = 400 => req'[r] = req[r]]_vars

\* A request without a budget was refused while the cache held the result
\* of an earlier request.
C6_Witness ==
  \E r, p \in Reqs :
    /\ p < r
    /\ req[r].query.budget = "" /\ req[r].status = 400
    /\ Fresh200(req[p]) /\ KeyOf(req[p]) \in DOMAIN cache

\* C7 as stated: every request with an integer budget ends with 200 and an
\* array.
C7_Always200 ==
  \A r \in Reqs :
    (req[r].pc = "done" /\ ~isNaN(req[r].budget))
      => req[r].status = 200 /\ req[r].body.j = "arr"

\* C7 as amended: every request with an integer budget ends with 200 and
\* an array, or with 500 and the generic error body.
C7_200Or500 ==
  \A r \in Reqs :
    (req[r].pc = "done" /\ ~isNaN(req[r].budget))
      => \/ req[r].status = 200 /\ req[r].body.j = "arr"
         \/ /\ req[r].status = 500
            /\ req[r].body = JObj(<< <<"error", JStr("Failed to fetch API data.")>> >>)

\* Both ends are reached: an empty array with 200, and 500.
C7_Witness ==
  \E r \in Reqs :
    /\ req[r].pc = "done" /\ ~isNaN(req[r].budget)
    /\ req[r].status = 500
    /\ req[r].recommendation = GenText(<<Prose>>)

\* C8: a request ends with 500 only when getAIRecommendations returned no
\* candidate.
C8_500OnlyWithoutCandidates ==
  \A r \in Reqs :
    (req[r].pc = "done" /\ req[r].status = 500) => NoSuggestions(req[r].suggestedLocations)

\* The replies after which getSightsFromAI falls back: the call failed, its
\* text is missing, or its text is not JSON.
SightsFailures == {GenRejected, GenNonText, GenText(<<Prose, Json(Sights(3))>>)}

\* Resolution and weather of candidate i succeeded.
ResolvedWithWeather(f, i) ==
  /\ Resolution(f, i).kind = "assemble"
  /\ ~Nullish(Get(Resolution(f, i).country, "flags"))
  /\ WeatherOk(f, i)

\* The candidates of f whose record is in the response, in order.
RECURSIVE Emitted(_, _)
Emitted(f, n) ==
  IF n = 0 THEN <<>>
  ELSE IF ResolvedWithWeather(f, n) THEN Append(Emitted(f, n - 1), n)
  ELSE Emitted(f, n - 1)

\* C9: when the attraction call of a candidate fails and its resolution and
\* weather succeeded, its record is in the response, with the attractions
\* ["Famous landmarks", "Local markets"].
C9_FallbackAttractions ==
  \A r \in Reqs :
    Fresh200(req[r]) =>
      \A i \in 1..Len(Cands(req[r])) :
        (ResolvedWithWeather(req[r], i) /\ req[r].fetched[i].sights \in SightsFailures)
          => /\ PlaceOf(req[r], i) \in 1..Len(req[r].body.items)
             /\ Get(req[r].body.items[PlaceOf(req[r], i)], "name")
                  = locationName(Cands(req[r])[i])
             /\ Get(req[r].body.items[PlaceOf(req[r], i)], "attractions")
                  = JArr(<<JStr("Famous landmarks"), JStr("Local markets")>>)

\* The attraction call was rejected, and the one record of the response has
\* the fallback.
C9_Witness ==
  \E r \in Reqs :
    /\ Fresh200(req[r])
    /\ Len(Cands(req[r])) >= 1
    /\ req[r].fetched[1].sights = GenRejected
    /\ Len(req[r].body.items) = 1
    /\ Len(Get(req[r].body.items[1], "attractions").items) = 2

\* C10: the records of a response are those of the candidates whose
\* weather request was answered, no more: a candidate whose weather request
\* failed has none, and every record carries the temperature and the
\* description that the weather request of its candidate returned.
C10_WeatherOrNoRecord ==
  \A r \in Reqs :
    Fresh200(req[r]) =>
      LET f == req[r]
          e == Emitted(f, Len(Cands(f)))
      IN  /\ Len(f.body.items) = Len(e)
          /\ \A k \in 1..Len(e) :
               LET w == f.fetched[e[k]].weather.data
                   rec == f.body.items[k]
               IN  /\ Get(rec, "name") = locationName(Cands(f)[e[k]])
                   /\ Get(Get(rec, "weather"), "temp").j = "num"
                   /\ Get(Get(rec, "weather"), "temp") = Get(Get(w, "main"), "temp")
                   /\ Get(Get(rec, "weather"), "description").j = "str"
                   /\ Get(Get(rec, "weather"), "description")
                        = Get(Get(w, "weather").items[1], "description")
          /\ \A i \in 1..Len(Cands(f)) :
               (f.fetched[i].weather # NotCalled /\ f.fetched[i].weather.ax = "rejected")
                 => \A k \in 1..Len(e) : e[k] # i

\* The weather request failed after the country was found and the
\* attractions were returned: the response is empty.
C10_Witness ==
  \E r \in Reqs :
    /\ Fresh200(req[r])
    /\ Len(Cands(req[r])) >= 1
    /\ Resolution(req[r], 1).kind = "assemble"
    /\ ~Nullish(Get(Resolution(req[r], 1).country, "flags"))
    /\ req[r].fetched[1].sights = GenText(<<Json(Sights(3))>>)
    /\ req[r].fetched[1].weather = AxRejected
    /\ req[r].body = JArr(<<>>)

\* The country record that the country request of candidate i returned.
CountryOf(f, i) == f.fetched[i].country.data.items[1]

\* The record of candidate i in the response of f.
RecordOf(f, i) == f.body.items[PlaceOf(f, i)]

\* C11: the record of a candidate whose country record has no currency set,
\* or an empty one, is in the response with the currency "N/A"; the record
\* of any other candidate has the name of the first currency of the set.
C11_CurrencyOrNA ==
  \A r \in Reqs :
    Fresh200(req[r]) =>
      \A i \in 1..Len(Cands(req[r])) :
        ResolvedWithWeather(req[r], i) =>
          LET currencies == Get(CountryOf(req[r], i), "currencies")
          IN  /\ PlaceOf(req[r], i) \in 1..Len(req[r].body.items)
              /\ Get(RecordOf(req[r], i), "name") = locationName(Cands(req[r])[i])
              /\ Get(RecordOf(req[r], i), "currency") =
                   IF currencies.j = "obj" /\ Len(currencies.props) > 0
                   THEN Get(currencies.props[1][2], "name")
                   ELSE JStr("N/A")

\* A country record with an empty currency set gave a record with "N/A".
C11_Witness ==
  \E r \in Reqs :
    /\ Fresh200(req[r])
    /\ Len(Cands(req[r])) >= 1
    /\ ResolvedWithWeather(req[r], 1)
    /\ Get(CountryOf(req[r], 1), "currencies") = JObj(<<>>)
    /\ Len(req[r].body.items) >= 1
    /\ Get(req[r].body.items[1], "currency") = JStr("N/A")

\* The handler of f is suspended at an await.
InFlight(f) == f.pc \notin {"idle", "done"}

\* C12: a request whose cache check finds no fresh entry recomputes even
\* when another request of the same key is computing at that moment, the
\* other request is left alone, and the array of every response that was
\* computed is the one computed from the replies its own request received.
C12_NoSingleFlight ==
  [][\A r \in Reqs :
       /\ (/\ Checks(r)
           /\ \E p \in Reqs \ {r} : InFlight(req[p]) /\ KeyOf(req[p]) = KeyOf(req'[r])
           /\ \/ KeyOf(req'[r]) \notin DOMAIN cache
              \/ now - cache[KeyOf(req'[r])].timestamp >= 3600000)
            => /\ Recomputing(req'[r])
               /\ \A p \in Reqs \ {r} : req'[p] = req[p]
       /\ Fresh200(req'[r])
            => /\ Iterable(req'[r].suggestedLocations)
               /\ req'[r].body = JArr(Expected(req'[r], Len(Cands(req'[r]))))]_vars

\* Two requests of one key computed at the same time, and their responses
\* differ: the second checked the cache before the first had stored.
C12_Witness ==
  \E r, p \in Reqs :
    /\ p < r
    /\ Fresh200(req[p]) /\ Fresh200(req[r])
    /\ KeyOf(req[p]) = KeyOf(req[r])
    /\ req[p].checkedAt < FreshnessMs /\ req[r].checkedAt < FreshnessMs
    /\ req[p].body = JArr(<<>>)
    /\ Len(req[r].body.items) = 1

\* The steps of a request, in the order of the handler's code.
Stage(f) ==
  IF f.pc = "idle" THEN 0
  ELSE IF f.pc = "exchange" THEN 1
  ELSE IF f.pc = "recommend" THEN 2
  ELSE IF f.pc = "done" THEN 4
  ELSE 3

\* The calls of getAIRecommendations to the model: every other call to the
\* model is an attraction call, sent together with a weather request.
RecommenderCalls(f) == f.calls.model - f.calls.weather

\* Every candidate of f has been through the loop.
AllProcessed(f) ==
  \A i \in 1..Len(Cands(f)) :
    /\ Prefix(Cands(f)[i]) # "abort"
    /\ Prefix(Cands(f)[i]) = "call" => f.fetched[i].country # NotCalled

\* C13: a request goes through validation, cache check, recommendation,
\* assembly, store and response in that order: the recommender is called at
\* most once and only after a cache miss, no candidate request is sent before
\* it has returned a non-empty list, and the cache is written only when the
\* last candidate has been processed, in the step that sends the 200.
C13_StepOrder ==
  [][/\ \A r \in Reqs :
       LET f == req[r]
           g == req'[r]
       IN  /\ Stage(g) >= Stage(f)
           /\ RecommenderCalls(g) \in {0, 1}
           /\ RecommenderCalls(g) >= RecommenderCalls(f)
           /\ (RecommenderCalls(g) = 1 /\ RecommenderCalls(f) = 0)
                => /\ Stage(f) \in {0, 1} /\ g.pc = "recommend"
                   /\ ~isNaN(g.budget)
           /\ (Stage(f) = 0 /\ Stage(g) \in {1, 2})
                => \/ KeyOf(g) \notin DOMAIN cache
                   \/ now - cache[KeyOf(g)].timestamp >= 3600000
           /\ (g.calls.country + g.calls.geocode + g.calls.weather > 0 \/ Stage(g) = 3)
                => /\ RecommenderCalls(g) = 1
                   /\ g.recommendation # NotCalled
                   /\ GotList(g)
           /\ (f.pc # "done" /\ Fresh200(g))
                => /\ Stage(f) = 3
                   /\ AllProcessed(g)
                   /\ KeyOf(g) \in DOMAIN cache'
                   /\ cache'[KeyOf(g)] = [timestamp |-> now, data |-> g.body]
     /\ cache' # cache
          => \E w \in Reqs :
               /\ req[w].pc # "done" /\ Fresh200(req'[w])
               /\ \A k \in DOMAIN cache \ {KeyOf(req'[w])} :
                    k \in DOMAIN cache' /\ cache'[k] = cache[k]]_vars

\* A request went through all the steps for two candidates: one call of the
\* recommender, two attraction calls, and its array is in the cache.
C13_Witness ==
  \E r \in Reqs :
    /\ Fresh200(req[r])
    /\ Len(Cands(req[r])) = 2
    /\ req[r].calls.country = 2
    /\ req[r].calls.model = 3
    /\ req[r].calls.weather = 2
    /\ KeyOf(req[r]) \in DOMAIN cache
    /\ cache[KeyOf(req[r])].data = req[r].body
    /\ Len(req[r].body.items) = 2

\* The requests of f to external services that have not settled yet,
\* attraction calls left behind by a rejected Promise.all included.
SubFetches(f) ==
  (IF f.pc \in {"country", "geocode"} THEN 1 ELSE 0)
  + (IF f.pc = "assemble" /\ f.weatherResponse = Pending THEN 1 ELSE 0)
  + (IF f.pc = "assemble" /\ f.attractions = Pending THEN 1 ELSE 0)
  + f.orphans

\* C14: candidates are processed one after another: while a request of one
\* candidate is in flight no call of an earlier candidate is still running,
\* and a request never has more than two sub-fetches in flight.
C14_OneCandidateAtATime ==
  \A r \in Reqs :
    /\ req[r].pc \in {"country", "geocode", "assemble"} => req[r].orphans = 0
    /\ SubFetches(req[r]) <= 2

\* The reply of an HTTP service carries a non-empty array.
HasResults(resp) ==
  /\ resp # NotCalled
  /\ resp.ax = "ok"
  /\ resp.data.j = "arr"
  /\ Len(resp.data.items) > 0

\* Candidate i is resolved: its country record was found and, for a city, a
\* geocoding result; for a country, the record has a capital and the
\* coordinates of the capital.
Found(f, i) ==
  /\ HasResults(f.fetched[i].country)
  /\ IF isCity(Cands(f)[i])
     THEN HasResults(f.fetched[i].geocode)
     ELSE /\ ~Nullish(Get(CountryOf(f, i), "capital"))
          /\ ~Nullish(Get(Get(CountryOf(f, i), "capitalInfo"), "latlng"))

\* C15: the weather request and the attraction call of a candidate are sent
\* in one step, the step in which the resolution of that candidate succeeds,
\* and are then both in flight; neither is ever sent for a candidate that
\* was dropped during resolution.
C15_BothAfterResolution ==
  [][\A r \in Reqs :
       LET f == req[r]
           g == req'[r]
       IN  /\ (Stage(f) = 3 /\ g # f)
                => /\ g.calls.weather - f.calls.weather \in {0, 1}
                   /\ g.calls.model - f.calls.model = g.calls.weather - f.calls.weather
           /\ g.calls.weather > f.calls.weather
                => /\ f.pc \in {"country", "geocode"}
                   /\ g.pc = "assemble" /\ g.idx = f.idx
                   /\ g.weatherResponse = Pending /\ g.attractions = Pending
                   /\ Found(g, g.idx)
           /\ \A i \in 1..Len(g.fetched) :
                ~Found(g, i)
                  => /\ g.fetched[i].weather = NotCalled
                     /\ g.fetched[i].sights = NotCalled
                     /\ ~(g.pc = "assemble" /\ g.idx = i)]_vars

\* The country and the place of a city candidate were found: its weather
\* request and its attraction call are both in flight.
C15_Witness ==
  \E r \in Reqs :
    /\ req[r].pc = "assemble"
    /\ isCity(Cands(req[r])[req[r].idx])
    /\ HasResults(req[r].fetched[req[r].idx].geocode)
    /\ req[r].weatherResponse = Pending /\ req[r].attractions = Pending
    /\ req[r].calls.weather = 1 /\ req[r].calls.model = 2

\* A candidate as the prompt asks for it: an object with a name and a type
\* and, for a city, a country.
WellFormed(location) ==
  /\ location.j = "obj"
  /\ ~Nullish(Get(location, "name"))
  /\ ~Nullish(Get(location, "type"))
  /\ isCity(location) => ~Nullish(Get(location, "country"))

\* C16: what getAIRecommendations returns is a list, empty or of well-formed
\* candidates only.
C16_OnlyValidatedLists ==
  \A r \in Reqs :
    req[r].recommendation # NotCalled
      => /\ req[r].suggestedLocations.j = "arr"
         /\ \A i \in 1..Len(req[r].suggestedLocations.items) :
              WellFormed(req[r].suggestedLocations.items[i])

\* v is an array of one to three strings.
UpToThreeStrings(v) ==
  /\ v.j = "arr"
  /\ Len(v.items) \in 1..3
  /\ \A k \in 1..Len(v.items) : v.items[k].j = "str"

\* C17: the attractions of every record of every 200 response are a
\* non-empty array of at most three strings.
C17_AttractionsShape ==
  \A r \in Reqs :
    (req[r].pc = "done" /\ req[r].status = 200)
      => \A k \in 1..Len(req[r].body.items) :
           UpToThreeStrings(Get(req[r].body.items[k], "attractions"))

\* C18: a country candidate whose country record has no capital name or no
\* capital coordinates has no record in the response, and the record of
\* every other country candidate has the capital name as its capital and
\* the capital's coordinates as its latlng.
C18_CapitalOrDropped ==
  \A r \in Reqs :
    Fresh200(req[r]) =>
      \A i \in 1..Len(Cands(req[r])) :
        (HasResults(req[r].fetched[i].country) /\ ~isCity(Cands(req[r])[i])) =>
          LET capital == Get(CountryOf(req[r], i), "capital")
              latlng == Get(Get(CountryOf(req[r], i), "capitalInfo"), "latlng")
              named == capital.j = "arr" /\ Len(capital.items) > 0
          IN  IF named /\ ~Nullish(latlng)
              THEN Succeeded(req[r], i)
                     => /\ Get(RecordOf(req[r], i), "capital") = capital.items[1]
                        /\ Get(RecordOf(req[r], i), "latlng") = latlng
              ELSE ~Succeeded(req[r], i)

\* C19: the name given to getSightsFromAI for a candidate is the name sent
\* to the weather service for it: the city name of a city candidate, the
\* capital name of a country candidate.
C19_SightsOfDisplayName ==
  \A r \in Reqs :
    \A i \in 1..Len(req[r].fetched) :
      req[r].fetched[i].sightsName # NotCalled
        => /\ req[r].fetched[i].sightsName = req[r].fetched[i].weatherQuery
           /\ req[r].fetched[i].sightsName =
                IF isCity(Cands(req[r])[i]) THEN Get(Cands(req[r])[i], "name")
                ELSE First(Get(CountryOf(req[r], i), "capital"))

\* C20: the exchange-rate request is sent at most once per request, only
\* after a cache miss and never for USD; whatever its reply, the next step
\* sends the prompt to the model and changes nothing else, and after a
\* failed reply the prompt is the one without a converted amount.  A 500 is
\* sent only after the model has replied.
C20_ExchangeIsSoft ==
  [][\A r \in Reqs :
       LET f == req[r]
           g == req'[r]
       IN  /\ g.calls.exchange \in {0, 1}
           /\ g.calls.exchange >= f.calls.exchange
           /\ g.currency = "USD" => g.calls.exchange = 0
           /\ g.calls.exchange > f.calls.exchange
                => /\ f.pc = "idle" /\ g.pc = "exchange"
                   /\ g.calls = [ZeroCalls EXCEPT !.exchange = 1]
                   /\ \/ KeyOf(g) \notin DOMAIN cache
                      \/ now - cache[KeyOf(g)].timestamp >= 3600000
           /\ (f.pc = "exchange" /\ g # f)
                => /\ g = [f EXCEPT !.pc = "recommend", !.calls.model = 1,
                                    !.prompt = g.prompt,
                                    !.exchangeResponse = g.exchangeResponse]
                   /\ g.exchangeResponse.ax = "rejected"
                        => g.prompt = [budget |-> f.budget.n, currency |-> f.currency,
                                       approx |-> Undef]
           /\ g.status = 500 => g.recommendation # NotCalled]_vars

\* The exchange-rate request failed and the prompt went to the model.
C20_Witness ==
  \E r \in Reqs :
    /\ req[r].pc = "recommend"
    /\ req[r].exchangeResponse = AxRejected
    /\ req[r].calls.exchange = 1 /\ req[r].calls.model = 1
    /\ req[r].prompt.approx = Undef

\* Request r sends, in this step, the 200 of a completed assembly.
Stores(r) == req[r].pc # "done" /\ Fresh200(req'[r])

\* C21: the cache changes only in the step in which a request completes its
\* assembly with 200; that step sets the entry of the request's own key to
\* the complete array it responds with and the current time, and leaves
\* every other entry as it was.  No entry is ever removed, and every entry
\* holds the whole array of a completed assembly.
C21_CacheFrame ==
  [][/\ \A k \in DOMAIN cache : k \in DOMAIN cache'
     /\ (\A r \in Reqs : ~Stores(r)) => cache' = cache
     /\ \A r \in Reqs :
          /\ (req[r].pc # "done" /\ req'[r].pc = "done" /\ ~Fresh200(req'[r]))
               => /\ cache' = cache
                  /\ req'[r].status \in {400, 500, 200}
          /\ Stores(r)
               => /\ AllProcessed(req'[r])
                  /\ req'[r].body = JArr(Expected(req'[r], Len(Cands(req'[r]))))
                  /\ DOMAIN cache' = DOMAIN cache \cup {KeyOf(req'[r])}
                  /\ cache'[KeyOf(req'[r])] = [timestamp |-> now, data |-> req'[r].body]
                  /\ \A k \in DOMAIN cache \ {KeyOf(req'[r])} : cache'[k] = cache[k]
     /\ \A k \in DOMAIN cache' :
          \E r \in Reqs :
            /\ Fresh200(req'[r]) /\ KeyOf(req'[r]) = k
            /\ cache'[k].data = req'[r].body]_vars

\* The entry of a key was replaced: a first request stored an empty array,
\* and a second one of the same key, arriving when that entry had expired,
\* stored its own array at that time.
C21_Witness ==
  \E r, p \in Reqs :
    /\ p < r
    /\ Fresh200(req[p]) /\ Fresh200(req[r])
    /\ KeyOf(req[p]) = KeyOf(req[r])
    /\ req[p].checkedAt = 0 /\ req[r].checkedAt = FreshnessMs
    /\ req[p].body = JArr(<<>>)
    /\ Len(req[r].body.items) = 1
    /\ cache[KeyOf(req[r])] = [timestamp |-> FreshnessMs, data |-> req[r].body]

\* Request r is answered from the cache in this step.
ServedFromCache(r) ==
  /\ Checks(r) /\ req'[r].pc = "done" /\ req'[r].status = 200
  /\ req'[r].calls = ZeroCalls

\* Requests f and g have the same parsed budget and the same currency.
SamePair(f, g) == f.budget = g.budget /\ f.currency = g.currency

\* C22: a request is served from the cache only with the array computed by
\* a request of the same parsed budget and the same currency; the step in
\* which a request stores its array leaves the entry of every request of
\* another budget or currency as it was; a request without currency
\* parameter has the currency "USD".
C22_KeyIsolation ==
  [][\A r \in Reqs :
       /\ ServedFromCache(r)
            => \E p \in Reqs \ {r} :
                 /\ Fresh200(req[p]) /\ SamePair(req[p], req'[r])
                 /\ req'[r].body = req[p].body
       /\ Stores(r)
            => \A p \in Reqs :
                 (req[p].pc # "idle" /\ ~isNaN(req[p].budget) /\ ~SamePair(req[p], req'[r]))
                   => /\ KeyOf(req[p]) # KeyOf(req'[r])
                      /\ KeyOf(req[p]) \in DOMAIN cache
                           => cache'[KeyOf(req[p])] = cache[KeyOf(req[p])]
                      /\ KeyOf(req[p]) \notin DOMAIN cache
                           => KeyOf(req[p]) \notin DOMAIN cache'
       /\ (req'[r].pc # "idle" /\ req'[r].query.currency = "")
            => req'[r].currency = "USD"]_vars

\* A request for budget 7 without currency computed a record; a later
\* request for budget "7-1" in USD was served that array from the cache.
C22_Witness ==
  \E r, p \in Reqs :
    /\ p < r
    /\ req[p].query = Query("7", "") /\ Fresh200(req[p])
    /\ Len(req[p].body.items) = 1
    /\ req[r].query = Query("7-1", "USD")
    /\ req[r].pc = "done" /\ req[r].status = 200 /\ req[r].calls = ZeroCalls
    /\ req[r].body = req[p].body

\* C23: when every external call settles, every request that arrived gets
\* a response, whatever the other requests do; a response is one of 400,
\* 200 and 500 and has a body, and once it is sent neither a second
\* response nor any further call follows.
C23_ExactlyOneResponse ==
  /\ \A r \in Reqs : (req[r].pc # "idle") ~> (req[r].pc = "done")
  /\ [][\A r \in Reqs :
          /\ req'[r].status # 0 <=> req'[r].pc = "done"
          /\ req'[r].pc = "done"
               => req'[r].status \in {400, 200, 500} /\ req'[r].body # Undef
          /\ req[r].pc = "done"
               => /\ req'[r].pc = "done"
                  /\ req'[r].status = req[r].status
                  /\ req'[r].body = req[r].body
                  /\ req'[r].calls = req[r].calls]_vars

\* Two requests that overlapped have both been answered, one with 500 and
\* one with a computed 200.
C23_Witness ==
  \E r, p \in Reqs :
    /\ req[p].pc = "done" /\ req[p].status = 500
    /\ Fresh200(req[r]) /\ Len(req[r].body.items) = 1
    /\ KeyOf(req[p]) = KeyOf(req[r])

====
